---- MODULE Spec2Model ----
(***************************************************************************)
(* Model of the planetarium physics core: Body (src/src/bodydefs.py) with  *)
(* its bounded deque of State frames, the Vector2 arithmetic and the Euler *)
(* method it calls, and the System step protocol that drives the bodies.   *)
(*                                                                         *)
(* Numbers are fixed-point: a real value v is stored as the integer        *)
(* v * Unit, products and quotients are rounded toward zero (sign-         *)
(* symmetric, as IEEE rounding is).                                        *)
(***************************************************************************)
EXTENDS Integers, Sequences, FiniteSets, TLC

\* ------------------------------------------------------------------ bounds
Unit == 2          \* fixed-point denominator: 1.0 is stored as Unit
MaxOps == 4        \* Body-level operations per behaviour
MaxUpdates == 4    \* System.update() calls per behaviour
MaxTicks == 5      \* iterations of the Gui.run() loop per behaviour
MaxCalls == 8      \* builder calls per behaviour

\* --------------------------------------------------------------- constants
MAXLEN == 3        \* deque(maxlen=3)

VARIABLES bodies,  \* System.bodies: sequence of Body objects
          dt,      \* System.dt
          time,    \* System.time
          nupd,    \* number of completed update() calls
          nops,    \* number of Body-level calls made
          init0,   \* the bodies as constructed
          pre,     \* the bodies as they were before the last call
          last,    \* the last call: operation, receiver, argument, result
          pre2,    \* the bodies as they were before the call before it
          last2,   \* the call before the last call
          cmp,     \* the comparison made since the last call, if any
          rd,      \* the prior-frame read made since the last call, if any
          gui,     \* Gui.run(): position in the loop, running, call counts
          builders, \* the Builder objects created so far
          results,  \* the result dictionaries, by identity
          blog,     \* the builds made on the caller's dictionary, in order
          bcall,    \* the last builder call and its outcome
          bpre,     \* builders and results before that call
          ncalls    \* number of builder calls made

\* the variables of the physics core, and the others
physVars == <<bodies, dt, time, nupd, nops, init0, pre, last, pre2, last2, cmp,
              rd>>

guiVars == <<gui>>

bldVars == <<builders, results, blog, bcall, bpre, ncalls>>

otherVars == <<guiVars, bldVars>>

vars == <<physVars, otherVars>>

\* ------------------------------------------------------ fixed-point numbers
Abs(a) == IF a < 0 THEN -a ELSE a

Sgn(a) == IF a < 0 THEN -1 ELSE IF a > 0 THEN 1 ELSE 0

\* a * b
FMul(a, b) == Sgn(a) * Sgn(b) * ((Abs(a) * Abs(b)) \div Unit)

\* a / b, b # 0
FDiv(a, b) == Sgn(a) * Sgn(b) * ((Abs(a) * Unit) \div Abs(b))

\* floor of the square root of n >= 0
ISqrt(n) == CHOOSE s \in 0..n : s * s <= n /\ (s + 1) * (s + 1) > n

\* ------------------------------------------------------------------ Vector2
Vector2(x, y) == <<x, y>>

Vector2Zero == Vector2(0, 0)

from_pair(p) == Vector2(p[1], p[2])

VAdd(u, v) == Vector2(u[1] + v[1], u[2] + v[2])

VSub(u, v) == Vector2(u[1] - v[1], u[2] - v[2])

VNeg(u) == Vector2(-u[1], -u[2])

\* scalar * vector
VScale(s, v) == Vector2(FMul(s, v[1]), FMul(s, v[2]))

\* abs(v): Euclidean norm
VAbs(v) == ISqrt(v[1] * v[1] + v[2] * v[2])

\* a ** 3
Pow3(a) == FMul(FMul(a, a), a)

\* --------------------------------------------------------------- Body.State
\* id is the identity of the State object: the number of frames the body
\* had pushed before this one.
State(id, pos, vel, forces) ==
    [id |-> id, pos |-> pos, vel |-> vel, forces |-> forces]

\* deque.appendleft on a deque of maxlen MAXLEN: index 1 is the left end,
\* index Len is the right end (states[-1]); a full deque drops its right end.
\* appendleft on a deque created without maxlen
appendleft_unbounded(d, x) == <<x>> \o d

appendleft(d, x) ==
    LET s == <<x>> \o d
    IN  IF Len(s) > MAXLEN THEN SubSeq(s, 1, MAXLEN) ELSE s

\* --------------------------------------------------------------------- Body
Body(name, pos0, vel0, mass) ==
    [name     |-> name,
     states   |-> appendleft(<<>>, State(0, from_pair(pos0), from_pair(vel0),
                                         Vector2Zero)),
     mass     |-> mass,
     inv_mass |-> FDiv(Unit, mass)]

\* states[-1] and states[-2]
Last(b) == Len(b.states)

Last2(b) == Len(b.states) - 1

pos(b) == b.states[Last(b)].pos

vel(b) == b.states[Last(b)].vel

forces(b) == b.states[Last(b)].forces

prev_pos(b) == b.states[Last2(b)].pos

prev_vel(b) == b.states[Last2(b)].vel

prev_forces(b) == b.states[Last2(b)].forces

\* reading prev_pos, prev_vel and prev_forces with states[-1] standing in
\* for a missing states[-2]
read_prev_clamped(b) ==
    IF Len(b.states) >= 2
    THEN [raised |-> FALSE, pos |-> prev_pos(b), vel |-> prev_vel(b),
          forces |-> prev_forces(b)]
    ELSE [raised |-> FALSE, pos |-> pos(b), vel |-> vel(b),
          forces |-> forces(b)]

\* reading prev_pos, prev_vel and prev_forces: states[-2] raises IndexError
\* on a deque of fewer than 2 elements
read_prev(b) ==
    IF Len(b.states) >= 2
    THEN [raised |-> FALSE, pos |-> prev_pos(b), vel |-> prev_vel(b),
          forces |-> prev_forces(b)]
    ELSE [raised |-> TRUE, pos |-> Vector2Zero, vel |-> Vector2Zero,
          forces |-> Vector2Zero]

set_pos(b, new_pos) ==
    [b EXCEPT !.states[Last(b)].pos = from_pair(new_pos)]

set_vel(b, new_vel) ==
    [b EXCEPT !.states[Last(b)].vel = from_pair(new_vel)]

set_forces(b, new_forces) ==
    [b EXCEPT !.states[Last(b)].forces = from_pair(new_forces)]

\* the identity given to the next State object of body b
NextId(b) == b.states[1].id + 1

new_state(b) ==
    [b EXCEPT !.states =
        appendleft(b.states, State(NextId(b), pos(b), vel(b), Vector2Zero))]

\* r3 of apply_gravity_of
gravity_r3(self, body) == Pow3(VAbs(VSub(pos(body), pos(self))))

\* apply_gravity_of with the other body's mass left out of the product
apply_gravity_of_self_mass(self, body) ==
    LET r  == VSub(pos(body), pos(self))
        r3 == Pow3(VAbs(r))
        k  == FDiv(self.mass, r3)
    IN  [self EXCEPT !.states[Len(self.states)].forces =
            VAdd(self.states[Len(self.states)].forces, VScale(-k, r))]

\* apply_gravity_of assigning the contribution instead of adding it
apply_gravity_of_assign(self, body) ==
    LET r  == VSub(pos(body), pos(self))
        r3 == Pow3(VAbs(r))
        k  == FDiv(FMul(self.mass, body.mass), r3)
    IN  [self EXCEPT !.states[Len(self.states)].forces = VScale(-k, r)]

\* defined when gravity_r3(self, body) # 0; the division raises otherwise
apply_gravity_of(self, body) ==
    LET r  == VSub(pos(body), pos(self))
        r3 == Pow3(VAbs(r))
        k  == FDiv(FMul(self.mass, body.mass), r3)
    IN  set_forces(self, VAdd(forces(self), VScale(-k, r)))

\* methods.euler: returns <<velocity, position>>
euler(b, h) ==
    LET acceleration == VScale(b.inv_mass, forces(b))
    IN  <<VAdd(vel(b), VScale(h, acceleration)),
          VAdd(pos(b), VScale(h, vel(b)))>>

\* the functions of the methods module, by name
Method(method, b, h) == CASE method = "euler" -> euler(b, h)

\* integrate calling the method once per assignment, the second time on
\* the body whose vel is already replaced
integrate_twice(b, h, method) ==
    LET b1 == set_vel(b, Method(method, b, h)[1])
    IN  set_pos(b1, Method(method, b1, h)[2])

integrate(b, h, method) ==
    LET res == Method(method, b, h)
    IN  set_pos(set_vel(b, res[1]), res[2])

\* the attributes __eq__ reads from an object that is a Body
Attrs == {"name", "mass", "pos", "vel"}

View(b) == [a \in Attrs |->
              CASE a = "name" -> b.name
                [] a = "mass" -> b.mass
                [] a = "pos"  -> pos(b)
                [] a = "vel"  -> vel(b)]

\* an object without the attributes in missing
Without(o, missing) == [a \in (DOMAIN o) \ missing |-> o[a]]

\* __eq__ without the comparison of vel
eq_no_vel(self, other) ==
    IF "name" \notin DOMAIN other THEN FALSE
    ELSE IF self.name # other["name"] THEN FALSE
    ELSE IF "mass" \notin DOMAIN other THEN FALSE
    ELSE IF self.mass # other["mass"] THEN FALSE
    ELSE IF "pos" \notin DOMAIN other THEN FALSE
    ELSE IF pos(self) # other["pos"] THEN FALSE
    ELSE TRUE

\* Body.__eq__; other is a function from the attribute names it has to
\* their values, and reading an attribute it lacks raises AttributeError
eq(self, other) ==
    IF "name" \notin DOMAIN other THEN FALSE
    ELSE IF self.name # other["name"] THEN FALSE
    ELSE IF "mass" \notin DOMAIN other THEN FALSE
    ELSE IF self.mass # other["mass"] THEN FALSE
    ELSE IF "pos" \notin DOMAIN other THEN FALSE
    ELSE IF pos(self) # other["pos"] THEN FALSE
    ELSE IF "vel" \notin DOMAIN other THEN FALSE
    ELSE IF vel(self) # other["vel"] THEN FALSE
    ELSE TRUE

\* ------------------------------------------------------------------- System
RECURSIVE NewStateLoop(_, _)
NewStateLoop(bs, i) ==
    IF i > Len(bs) THEN bs
    ELSE NewStateLoop([bs EXCEPT ![i] = new_state(bs[i])], i + 1)

\* the double loop over ordered pairs, k = (i - 1) * n + (j - 1); stops at
\* the first pair whose division raises
RECURSIVE GravityLoop(_, _)
GravityLoop(bs, k) ==
    LET n == Len(bs)
        i == (k \div n) + 1
        j == (k % n) + 1
    IN  IF k >= n * n THEN [bodies |-> bs, ok |-> TRUE]
        ELSE IF i = j THEN GravityLoop(bs, k + 1)
        ELSE IF gravity_r3(bs[i], bs[j]) = 0
             THEN [bodies |-> bs, ok |-> FALSE]
        ELSE GravityLoop([bs EXCEPT ![i] = apply_gravity_of(bs[i], bs[j])],
                         k + 1)

RECURSIVE IntegrateLoop(_, _, _)
IntegrateLoop(bs, h, i) ==
    IF i > Len(bs) THEN bs
    ELSE IntegrateLoop([bs EXCEPT ![i] = integrate(bs[i], h, "euler")], h, i + 1)

\* ----------------------------------------------------------------- Builder
\* Values are strings: None is "None", and a key a dict does not have maps
\* to "absent".
None == "None"

Absent == "absent"

BodyArgs == {"name", "pos", "vel", "mass"}

SystemArgs == {"dt", "method"}

\* the names gather() is called with: the declared ones and one other
ArgNames == BodyArgs \cup SystemArgs \cup {"extra"}

Declared(cls) == IF cls = "BodyBuilder" THEN BodyArgs ELSE SystemArgs

\* Builder.__init__: self.args = {arg: None for arg in args}
NewArgs(declared) ==
    [k \in ArgNames |-> IF k \in declared THEN None ELSE Absent]

\* the empty dict {}
NoConfig == [k \in ArgNames |-> Absent]

\* BodyBuilder() and SystemBuilder(); block is the position relative to the
\* with-block: "in", "left", or "raised" when __exit__ raised
NewBodyBuilder ==
    [cls |-> "BodyBuilder", args |-> NewArgs(BodyArgs), block |-> "in",
     name |-> None, data |-> <<>>, config |-> NoConfig]

NewSystemBuilder ==
    [cls |-> "SystemBuilder", args |-> NewArgs(SystemArgs), block |-> "in",
     name |-> None, data |-> <<>>, config |-> NoConfig]

\* get_builder handing out one builder per header, created once
get_builder_cached(bs, header) ==
    LET cls == IF header = "Body" THEN "BodyBuilder" ELSE "SystemBuilder"
        old == {i \in 1..Len(bs) : bs[i].cls = cls}
    IN  IF header \notin {"Body", "System"}
        THEN [raised |-> "TypeError", builders |-> bs, ret |-> 0]
        ELSE IF old # {}
        THEN [raised |-> "none", builders |-> bs,
              ret |-> CHOOSE i \in old : TRUE]
        ELSE [raised |-> "none",
              builders |-> Append(bs, IF header = "Body" THEN NewBodyBuilder
                                      ELSE NewSystemBuilder),
              ret |-> Len(bs) + 1]

\* get_builder(header), bs being the builders that exist; ret is the
\* identity of the builder returned
get_builder(bs, header) ==
    IF header = "Body"
    THEN [raised |-> "none", builders |-> Append(bs, NewBodyBuilder),
          ret |-> Len(bs) + 1]
    ELSE IF header = "System"
    THEN [raised |-> "none", builders |-> Append(bs, NewSystemBuilder),
          ret |-> Len(bs) + 1]
    ELSE [raised |-> "TypeError", builders |-> bs, ret |-> 0]

\* Builder.gather
gather(b, arg_name, value) == [b EXCEPT !.args[arg_name] = value]

\* Builder.missing_args
missing_args(b) == {k \in ArgNames : b.args[k] = None}

\* the test of Builder.__exit__ asking for every value to be None
exit_raises_all(b) ==
    /\ \E k \in ArgNames : b.args[k] # Absent
    /\ \A k \in ArgNames : b.args[k] # Absent => b.args[k] = None

\* the test of Builder.__exit__: any(value is None for value in args.values())
exit_raises(b) == \E k \in ArgNames : b.args[k] = None

\* BodyBuilder.__exit__ and SystemBuilder.__exit__
exit(b) ==
    IF exit_raises(b) THEN [b EXCEPT !.block = "raised"]
    ELSE IF b.cls = "BodyBuilder"
    THEN [b EXCEPT !.block = "left",
                   !.name = b.args["name"],
                   !.data = <<[pos  |-> b.args["pos"],
                               vel  |-> b.args["vel"],
                               mass |-> b.args["mass"]]>>]
    ELSE [b EXCEPT !.block = "left", !.config = b.args]

\* a dict with keys among names, state, config; state is None or an array
Dict(keys, names, state, config) ==
    [keys |-> keys, names |-> names, state |-> state, config |-> config]

NoneState == [none |-> TRUE, rows |-> <<>>]

EmptyDict == Dict({}, <<>>, NoneState, NoConfig)

\* the dictionary the caller starts with: names = [], state = None
CallerDict == Dict({"names", "state"}, <<>>, NoneState, NoConfig)

\* BodyBuilder._build putting the new entry first
body_build_prepend(b, d) ==
    IF "names" \notin d.keys THEN [raised |-> "KeyError", dict |-> d]
    ELSE LET d1 == [d EXCEPT !.names = <<b.name>> \o @]
         IN  IF "state" \notin d.keys THEN [raised |-> "KeyError", dict |-> d1]
             ELSE [raised |-> "none",
                   dict |-> [d1 EXCEPT !.state =
                       [none |-> FALSE,
                        rows |-> <<b.data>> \o
                                 (IF d.state.none THEN <<>> ELSE d.state.rows)]]]

\* BodyBuilder._build: result['names'] raises KeyError on a dict without
\* it; names.append changes the list in place before state is read
body_build(b, d) ==
    IF "names" \notin d.keys THEN [raised |-> "KeyError", dict |-> d]
    ELSE LET d1 == [d EXCEPT !.names = Append(@, b.name)]
         IN  IF "state" \notin d.keys THEN [raised |-> "KeyError", dict |-> d1]
             ELSE [raised |-> "none",
                   dict |-> [d1 EXCEPT !.state =
                       [none |-> FALSE,
                        rows |-> (IF d.state.none THEN <<>> ELSE d.state.rows)
                                 \o <<b.data>>]]]

\* SystemBuilder._build
system_build(b, d) ==
    LET config == IF "config" \in d.keys THEN d.config ELSE NoConfig
        merged == [k \in ArgNames |->
                      IF b.config[k] # Absent THEN b.config[k] ELSE config[k]]
    IN  [raised |-> "none",
         dict |-> [d EXCEPT !.keys = @ \cup {"config"}, !.config = merged]]

\* Builder.build on the dict d (the fresh {} when no result is passed)
build(b, d) ==
    IF b.cls = "BodyBuilder" THEN body_build(b, d) ELSE system_build(b, d)

BuilderCall(op, who, arg, raised, ret) ==
    [op |-> op, who |-> who, arg |-> arg, raised |-> raised, ret |-> ret]

NoBuilderCall == BuilderCall("init", 0, "", "none", 0)

\* ------------------------------------------------------------ initial state
Names == {"a", "b"}

FirstBodies ==
    {Body("a", <<0, 0>>, v, m) :
        v \in {<<0, 0>>, <<Unit, 0>>, <<0, Unit>>}, m \in {Unit, 2 * Unit}}

SecondBodies ==
    {Body("b", p, v, Unit) :
        p \in {<<Unit, 0>>, <<0, 2 * Unit>>}, v \in {<<0, 0>>, <<0, -Unit>>}}

BodyLists ==
    {<<a>> : a \in FirstBodies} \cup
    {<<a, b>> : a \in FirstBodies, b \in SecondBodies}

DtSet == {1, Unit}

\* Gui.run() after running = True, before the first test of the loop
GuiStart == [pc |-> "while", running |-> TRUE, events |-> <<>>, ticks |-> 0,
             updates |-> 0, draws |-> 0, shown |-> 0, quitAt |-> 0]

Call(op, who, arg, res) == [op |-> op, who |-> who, arg |-> arg, res |-> res]

NoCall == Call("init", 0, 0, FALSE)

NoCmp == [who |-> 0, other |-> <<>>, res |-> FALSE]

NoRead == [who |-> 0, raised |-> FALSE, pos |-> Vector2Zero,
           vel |-> Vector2Zero, forces |-> Vector2Zero]

Init ==
    /\ bodies \in BodyLists
    /\ dt \in DtSet
    /\ time = 0
    /\ nupd = 0
    /\ nops = 0
    /\ init0 = bodies
    /\ pre = bodies
    /\ last = NoCall
    /\ pre2 = bodies
    /\ last2 = NoCall
    /\ cmp = NoCmp
    /\ rd = NoRead
    /\ gui = GuiStart
    /\ builders = <<>>
    /\ results = <<CallerDict>>
    /\ blog = <<>>
    /\ bcall = NoBuilderCall
    /\ bpre = [builders |-> <<>>, results |-> <<>>]
    /\ ncalls = 0

\* the two-call record kept for the properties
Record(call) ==
    /\ pre' = bodies
    /\ last' = call
    /\ pre2' = pre
    /\ last2' = last
    /\ cmp' = NoCmp
    /\ rd' = NoRead

\* ------------------------------------------------------- Body-level actions
NewState(i) ==
    /\ nops < MaxOps
    /\ bodies' = [bodies EXCEPT ![i] = new_state(bodies[i])]
    /\ Record(Call("new_state", i, 0, FALSE))
    /\ nops' = nops + 1
    /\ UNCHANGED <<dt, time, nupd, init0>>
    /\ UNCHANGED otherVars

ApplyGravityOf(i, j) ==
    /\ nops < MaxOps
    /\ i # j
    /\ gravity_r3(bodies[i], bodies[j]) # 0
    /\ bodies' = [bodies EXCEPT ![i] = apply_gravity_of(bodies[i], bodies[j])]
    /\ Record(Call("apply_gravity_of", i, j, FALSE))
    /\ nops' = nops + 1
    /\ UNCHANGED <<dt, time, nupd, init0>>
    /\ UNCHANGED otherVars

\* the division by r3 = 0 raises before forces is assigned
ApplyGravityRaises(i, j) ==
    /\ nops < MaxOps
    /\ i # j
    /\ gravity_r3(bodies[i], bodies[j]) = 0
    /\ Record(Call("apply_gravity_of_raises", i, j, FALSE))
    /\ nops' = nops + 1
    /\ UNCHANGED <<bodies, dt, time, nupd, init0>>
    /\ UNCHANGED otherVars

Integrate(i) ==
    /\ nops < MaxOps
    /\ bodies' = [bodies EXCEPT ![i] = integrate(bodies[i], dt, "euler")]
    /\ Record(Call("integrate", i, 0, FALSE))
    /\ nops' = nops + 1
    /\ UNCHANGED <<dt, time, nupd, init0>>
    /\ UNCHANGED otherVars

Next ==
    \E i \in 1..Len(bodies) :
        \/ NewState(i)
        \/ Integrate(i)
        \/ \E j \in 1..Len(bodies) :
              \/ ApplyGravityOf(i, j)
              \/ ApplyGravityRaises(i, j)

Spec == Init /\ [][Next]_vars

\* ---------------------------------------------------------------- Body == x
\* the objects a body is compared with: a freshly constructed Body, or an
\* object lacking one of the attributes
Others ==
    {View(Body(n, <<0, 0>>, v, Unit)) :
        n \in Names, v \in {<<0, 0>>, <<Unit, 0>>}}
    \cup
    {Without(View(Body("a", <<0, 0>>, <<0, 0>>, Unit)), {a}) : a \in Attrs}

\* self == other, for self = bodies[i]
Eq(i) ==
    /\ cmp = NoCmp
    /\ \E other \in Others :
          cmp' = [who |-> i, other |-> other, res |-> eq(bodies[i], other)]
    /\ UNCHANGED <<bodies, dt, time, nupd, nops, init0, pre, last, pre2, last2,
                   rd>>
    /\ UNCHANGED otherVars

NextEq == Next \/ \E i \in 1..Len(bodies) : Eq(i)

SpecEq == Init /\ [][NextEq]_vars

\* ------------------------------------------------------------ System.update
Update ==
    /\ nupd < MaxUpdates
    /\ last.op # "update_raises"
    /\ LET fresh == NewStateLoop(bodies, 1)
           g     == GravityLoop(fresh, 0)
       IN  /\ g.ok
           /\ bodies' = IntegrateLoop(g.bodies, dt, 1)
    /\ time' = time + dt
    /\ nupd' = nupd + 1
    /\ Record(Call("update", 0, 0, FALSE))
    /\ UNCHANGED <<dt, nops, init0>>
    /\ UNCHANGED otherVars

\* a division in the force loop raises: update() is left before any body is
\* integrated and before time advances, and the exception ends the driver
UpdateRaises ==
    /\ nupd < MaxUpdates
    /\ last.op # "update_raises"
    /\ LET fresh == NewStateLoop(bodies, 1)
           g     == GravityLoop(fresh, 0)
       IN  /\ ~g.ok
           /\ bodies' = g.bodies
    /\ Record(Call("update_raises", 0, 0, FALSE))
    /\ UNCHANGED <<dt, time, nupd, nops, init0>>
    /\ UNCHANGED otherVars

\* a read of bodies[i].prev_pos, prev_vel and prev_forces between two steps
ReadPrev(i) ==
    /\ rd = NoRead
    /\ LET got == read_prev(bodies[i])
       IN  rd' = [who |-> i, raised |-> got.raised, pos |-> got.pos,
                  vel |-> got.vel, forces |-> got.forces]
    /\ UNCHANGED <<bodies, dt, time, nupd, nops, init0, pre, last, pre2, last2,
                   cmp>>
    /\ UNCHANGED otherVars

NextSys ==
    \/ Update
    \/ UpdateRaises
    \/ \E i \in 1..Len(bodies) : ReadPrev(i)

SpecSys == Init /\ [][NextSys]_vars

\* ------------------------------------------------------------------ Gui.run
\* what pygame.event.get() may return
EventBatches ==
    {<<>>, <<"KEYDOWN">>, <<"QUIT">>, <<"KEYDOWN", "QUIT">>,
     <<"QUIT", "KEYDOWN">>}

\* for event in events: if event.type == pygame.QUIT: running = False
RECURSIVE EventLoop(_, _, _)
EventLoop(running, events, k) ==
    IF k > Len(events) THEN running
    ELSE EventLoop(IF events[k] = "QUIT" THEN FALSE ELSE running,
                   events, k + 1)

\* while running:
GuiWhile ==
    /\ gui.pc = "while"
    /\ gui.running => gui.ticks < MaxTicks
    /\ gui' = [gui EXCEPT !.pc = IF gui.running THEN "tick" ELSE "done"]
    /\ UNCHANGED <<physVars, bldVars>>

\* self.clock.tick(guiconfig.TIME.FPS)
GuiTick ==
    /\ gui.pc = "tick"
    /\ gui' = [gui EXCEPT !.pc = "events", !.ticks = @ + 1]
    /\ UNCHANGED <<physVars, bldVars>>

\* the event loop leaving on the first QUIT, without update() and draw()
GuiEventsReturn ==
    /\ gui.pc = "events"
    /\ \E events \in EventBatches :
          LET run2 == EventLoop(gui.running, events, 1)
          IN  gui' = [gui EXCEPT !.pc = IF run2 THEN "update" ELSE "done",
                                 !.events = events,
                                 !.running = run2,
                                 !.quitAt = IF gui.running /\ ~run2
                                            THEN gui.updates ELSE @]
    /\ UNCHANGED <<physVars, bldVars>>

\* the for loop over pygame.event.get(); quitAt keeps the number of updates
\* made when QUIT was first seen
GuiEvents ==
    /\ gui.pc = "events"
    /\ \E events \in EventBatches :
          LET run2 == EventLoop(gui.running, events, 1)
          IN  gui' = [gui EXCEPT !.pc = "update",
                                 !.events = events,
                                 !.running = run2,
                                 !.quitAt = IF gui.running /\ ~run2
                                            THEN gui.updates ELSE @]
    /\ UNCHANGED <<physVars, bldVars>>

\* self.update(): self.system.update(), taken as a call that returns
GuiUpdate ==
    /\ gui.pc = "update"
    /\ gui' = [gui EXCEPT !.pc = "draw", !.updates = @ + 1]
    /\ UNCHANGED <<physVars, bldVars>>

\* self.draw(): the screen shows the bodies as the last update() left them
GuiDraw ==
    /\ gui.pc = "draw"
    /\ gui' = [gui EXCEPT !.pc = "while", !.draws = @ + 1,
                          !.shown = gui.updates]
    /\ UNCHANGED <<physVars, bldVars>>

NextGui == GuiWhile \/ GuiTick \/ GuiEvents \/ GuiUpdate \/ GuiDraw

\* the loop is sequential code whose calls return: it keeps stepping
\* one body at rest, for the behaviours in which the physics core is idle
Quiet ==
    /\ bodies = <<Body("a", <<0, 0>>, <<0, 0>>, Unit)>>
    /\ dt = Unit

InitGui == Init /\ Quiet

SpecGui == InitGui /\ [][NextGui]_vars /\ WF_vars(NextGui)

\* ------------------------------------------------------------ Builder calls
Headers == {"Body", "System", "Planet"}

\* the values gathered under each name
ArgValues(k) ==
    CASE k = "name"   -> {None, "a", "b"}
      [] k = "pos"    -> {None, "p"}
      [] k = "vel"    -> {None, "v"}
      [] k = "mass"   -> {None, "m"}
      [] k = "dt"     -> {None, "h"}
      [] k = "method" -> {None, "euler"}
      [] k = "extra"  -> {None, "x"}

\* bpre after get_builder, __exit__ and build; gather keeps none
Snapshot == bpre' = [builders |-> builders, results |-> results]

NoSnapshot == [builders |-> <<>>, results |-> <<>>]

\* the caller is sequential code with one with-block open at a time
GetBuilder(header) ==
    /\ ncalls < MaxCalls
    /\ ncalls' = ncalls + 1
    /\ \A i \in 1..Len(builders) : builders[i].block # "in"
    /\ LET got == get_builder(builders, header)
       IN  /\ builders' = got.builders
           /\ bcall' = BuilderCall("get_builder", 0, header, got.raised,
                                   got.ret)
    /\ Snapshot
    /\ UNCHANGED <<results, blog, physVars, guiVars>>

\* the names gathered into a builder of class cls
Gathered(cls) == Declared(cls) \cup {"extra"}

\* builder.gather(arg_name, value) inside the with-block
Gather(i, arg_name, value) ==
    /\ ncalls < MaxCalls
    /\ ncalls' = ncalls + 1
    /\ builders[i].block = "in"
    /\ arg_name \in Gathered(builders[i].cls)
    /\ builders' = [builders EXCEPT ![i] = gather(@, arg_name, value)]
    /\ bcall' = BuilderCall("gather", i, "", "none", 0)
    /\ bpre' = NoSnapshot
    /\ UNCHANGED <<results, blog, physVars, guiVars>>

\* leaving the with-block: __exit__
Exit(i) ==
    /\ ncalls < MaxCalls
    /\ ncalls' = ncalls + 1
    /\ builders[i].block = "in"
    /\ builders' = [builders EXCEPT ![i] = exit(@)]
    /\ bcall' = BuilderCall("exit", i, "",
                            IF exit_raises(builders[i]) THEN "ValueError"
                            ELSE "none", 0)
    /\ Snapshot
    /\ UNCHANGED <<results, blog, physVars, guiVars>>

\* builder.build(result): r = 0 is build() without a result, r > 0 names
\* the dictionary passed
Build(i, r) ==
    /\ ncalls < MaxCalls
    /\ ncalls' = ncalls + 1
    /\ LET got == build(builders[i], IF r = 0 THEN EmptyDict ELSE results[r])
           ret == IF got.raised # "none" THEN 0
                  ELSE IF r = 0 THEN Len(results) + 1 ELSE r
       IN  /\ results' = IF r = 0
                         THEN (IF got.raised = "none"
                               THEN Append(results, got.dict) ELSE results)
                         ELSE [results EXCEPT ![r] = got.dict]
           /\ bcall' = BuilderCall("build", i, r, got.raised, ret)
           /\ blog' = IF r = 1 /\ got.raised = "none"
                         /\ builders[i].cls = "BodyBuilder"
                      THEN Append(blog, [who  |-> i,
                                         name |-> builders[i].name,
                                         data |-> builders[i].data])
                      ELSE blog
    /\ Snapshot
    /\ UNCHANGED <<builders, physVars, guiVars>>

NextBld ==
    \/ \E header \in Headers : GetBuilder(header)
    \/ \E i \in 1..Len(builders) :
          \/ \E k \in ArgNames : \E v \in ArgValues(k) : Gather(i, k, v)
          \/ Exit(i)
          \/ \E r \in 0..Len(results) : Build(i, r)

InitBld == Init /\ Quiet

SpecBld == InitBld /\ [][NextBld]_vars

\* ======================================================== properties
\* the identities of the frames a body holds
FrameIds(b) == {b.states[k].id : k \in 1..Len(b.states)}

\* the frame pushed most recently / earliest among those held
NewestId(b) == CHOOSE m \in FrameIds(b) : \A n \in FrameIds(b) : n <= m

OldestId(b) == CHOOSE m \in FrameIds(b) : \A n \in FrameIds(b) : m <= n

FrameOf(b, id) ==
    b.states[CHOOSE k \in 1..Len(b.states) : b.states[k].id = id]

\* C1: a System of one body under Euler: after N update() calls vel is the
\* initial vel and pos is the initial pos + N * dt * initial vel.
C1_LinearAdvance ==
    (Len(init0) = 1 /\ last.op \in {"init", "update"}) =>
        LET v0 == vel(init0[1])
        IN  /\ vel(bodies[1]) = v0
            /\ pos(bodies[1]) =
                  VAdd(pos(init0[1]),
                       Vector2(nupd * FMul(dt, v0[1]), nupd * FMul(dt, v0[2])))

\* C2: right after new_state() returns, the forces accessor reads the zero
\* vector, whatever had been accumulated before.
C2_ForcesZeroAfterNewState ==
    last.op = "new_state" => forces(bodies[last.who]) = Vector2Zero

C4_HistoryBound ==
    /\ \A i \in 1..Len(bodies) :
          /\ Len(bodies[i].states) \in 1..3
          /\ Cardinality(FrameIds(bodies[i])) = Len(bodies[i].states)
    /\ (last.op = "new_state" /\ Len(pre[last.who].states) = 3) =>
          LET b0 == pre[last.who]
              b1 == bodies[last.who]
          IN  /\ OldestId(b0) \notin FrameIds(b1)
              /\ FrameIds(b1) =
                    (FrameIds(b0) \ {OldestId(b0)}) \cup {NewestId(b0) + 1}
              /\ \A id \in FrameIds(b0) \ {OldestId(b0)} :
                    FrameOf(b1, id) = FrameOf(b0, id)

C4_Witness ==
    /\ last.op = "new_state"
    /\ Len(pre[last.who].states) = 3
    /\ FrameOf(pre[last.who], OldestId(pre[last.who])).forces # Vector2Zero

\* C5: pos/vel/forces read the frame pushed most recently, and with two or
\* more frames prev_pos/prev_vel/prev_forces read the frame pushed
\* immediately before it.
C5_AccessorsReadNewest ==
    \A i \in 1..Len(bodies) :
        LET b == bodies[i]
        IN  /\ b.states[Last(b)].id = NewestId(b)
            /\ Len(b.states) >= 2 => b.states[Last2(b)].id = NewestId(b) - 1

\* C6: once a frame is superseded by a later new_state(), no
\* apply_gravity_of() or integrate() changes it: every write goes to the
\* frame pushed most recently.
C6_RetiredFramesWriteOnce ==
    last.op \in {"apply_gravity_of", "integrate"} =>
        LET b0 == pre[last.who]
            b1 == bodies[last.who]
        IN  \A id \in FrameIds(b0) \ {NewestId(b0)} :
                FrameOf(b1, id) = FrameOf(b0, id)

\* C7: integrate(dt, method) evaluates the method once on the state before
\* the call and stores the returned pair as vel and pos of the frame the
\* accessors read, so that the new pos comes from the old vel; forces of that
\* frame, name, mass, inv_mass, the number of frames, every other frame and
\* every other body stay as they were.
C7_IntegrateFrameEffect ==
    last.op = "integrate" =>
        LET b0  == pre[last.who]
            b1  == bodies[last.who]
            res == euler(b0, dt)
        IN  /\ vel(b1) = res[1]
            /\ pos(b1) = res[2]
            /\ pos(b1) = VAdd(pos(b0), VScale(dt, vel(b0)))
            /\ forces(b1) = forces(b0)
            /\ b1.states[Last(b1)].id = b0.states[Last(b0)].id
            /\ b1.name = b0.name
            /\ b1.mass = b0.mass
            /\ b1.inv_mass = b0.inv_mass
            /\ Len(b1.states) = Len(b0.states)
            /\ \A k \in 1..(Len(b0.states) - 1) : b1.states[k] = b0.states[k]
            /\ \A j \in 1..Len(bodies) : j # last.who => bodies[j] = pre[j]

C7_Witness ==
    /\ last.op = "integrate"
    /\ Len(pre[last.who].states) >= 2
    /\ forces(pre[last.who]) # Vector2Zero
    /\ vel(bodies[last.who]) # vel(pre[last.who])
    /\ pos(bodies[last.who]) # pos(pre[last.who])

\* C8: a == other is true exactly when other has name, mass, pos and vel
\* and the four equal those of a; history depth and forces play no part, and
\* an object lacking one of the attributes compares unequal.
C8_EqualityFourFields ==
    cmp.who # 0 =>
        LET b == bodies[cmp.who]
            o == cmp.other
        IN  cmp.res = (/\ Attrs \subseteq DOMAIN o
                       /\ o["name"] = b.name
                       /\ o["mass"] = b.mass
                       /\ o["pos"] = pos(b)
                       /\ o["vel"] = vel(b))

\* a body with two frames and accumulated forces equals a fresh Body
C8_Witness ==
    /\ cmp.who # 0
    /\ cmp.res
    /\ Len(bodies[cmp.who].states) >= 2
    /\ forces(bodies[cmp.who]) # Vector2Zero

\* C9: for two bodies whose forces are zero, after A.apply_gravity_of(B)
\* and B.apply_gravity_of(A), in either order, A.forces is the negation of
\* B.forces.
C9_PairwiseForceSymmetry ==
    (/\ last.op = "apply_gravity_of"
     /\ last2.op = "apply_gravity_of"
     /\ last2.who = last.arg
     /\ last2.arg = last.who
     /\ forces(pre2[last.who]) = Vector2Zero
     /\ forces(pre2[last.arg]) = Vector2Zero)
    => forces(bodies[last.who]) = VNeg(forces(bodies[last.arg]))

C9_Witness ==
    /\ last.op = "apply_gravity_of"
    /\ last2.op = "apply_gravity_of"
    /\ last2.who = last.arg
    /\ last2.arg = last.who
    /\ forces(pre2[last.who]) = Vector2Zero
    /\ forces(pre2[last.arg]) = Vector2Zero
    /\ forces(bodies[last.who]) # Vector2Zero
    /\ bodies[1].mass # bodies[2].mass
    /\ Len(bodies[last.who].states) >= 2

\* C13: apply_gravity_of(other) adds an attractive force: every non-zero
\* component of the vector added to self.forces has the sign of the same
\* component of other.pos - self.pos.
C13_GravityAttracts ==
    last.op = "apply_gravity_of" =>
        LET added == VSub(forces(bodies[last.who]), forces(pre[last.who]))
            r     == VSub(pos(pre[last.arg]), pos(pre[last.who]))
        IN  \A c \in 1..2 : added[c] # 0 => Sgn(added[c]) = Sgn(r[c])

\* C15: A.apply_gravity_of(B) adds one contribution to the forces of the
\* frame A's accessors read and changes nothing else: A's pos, vel, name,
\* mass, inv_mass, frame count and other frames, and every other body, B
\* included, stay as they were.
C15_GravityFrameEffect ==
    last.op = "apply_gravity_of" =>
        LET a0 == pre[last.who]
            a1 == bodies[last.who]
            b0 == pre[last.arg]
            r  == VSub(pos(b0), pos(a0))
            k  == FDiv(FMul(a0.mass, b0.mass), Pow3(VAbs(r)))
        IN  /\ forces(a1) = VAdd(forces(a0), VScale(-k, r))
            /\ pos(a1) = pos(a0)
            /\ vel(a1) = vel(a0)
            /\ a1.states[Last(a1)].id = a0.states[Last(a0)].id
            /\ a1.name = a0.name
            /\ a1.mass = a0.mass
            /\ a1.inv_mass = a0.inv_mass
            /\ Len(a1.states) = Len(a0.states)
            /\ \A k2 \in 1..(Len(a0.states) - 1) : a1.states[k2] = a0.states[k2]
            /\ \A j \in 1..Len(bodies) : j # last.who => bodies[j] = pre[j]

\* a second contribution lands on forces that were already non-zero
C15_Witness ==
    /\ last.op = "apply_gravity_of"
    /\ forces(pre[last.who]) # Vector2Zero
    /\ forces(bodies[last.who]) # forces(pre[last.who])
    /\ Len(bodies[last.who].states) >= 2

\* the bodies as integrate() finds them inside the update() that started
\* from bs
AtIntegrate(bs) == GravityLoop(NewStateLoop(bs, 1), 0).bodies

\* C14: whenever update() calls integrate(), from the first step on, the
\* body holds at least 2 frames and prev_pos/prev_vel/prev_forces return a
\* frame; on a body with a single frame they raise instead of returning.
C14_PriorFrameDefined ==
    /\ last.op = "update" =>
          \A i \in 1..Len(pre) :
              /\ Len(AtIntegrate(pre)[i].states) >= 2
              /\ ~read_prev(AtIntegrate(pre)[i]).raised
              /\ Len(bodies[i].states) = Len(AtIntegrate(pre)[i].states)
    /\ rd.who # 0 =>
          /\ Len(bodies[rd.who].states) = 1 => rd.raised
          /\ last.op = "update" => ~rd.raised

\* prev_* read right after the first update()
C14_Witness ==
    /\ rd.who # 0
    /\ last.op = "update"
    /\ nupd = 1
    /\ ~rd.raised

\* the counts of one loop iteration, by position in the loop
C19_Counts ==
    /\ gui.pc \in {"while", "done"} =>
          /\ gui.updates = gui.ticks
          /\ gui.draws = gui.ticks
          /\ gui.shown = gui.draws
    /\ gui.pc = "tick" =>
          /\ gui.running
          /\ gui.updates = gui.ticks
          /\ gui.draws = gui.ticks
    /\ gui.pc \in {"events", "update"} =>
          /\ gui.updates = gui.ticks - 1
          /\ gui.draws = gui.ticks - 1
    /\ gui.pc = "draw" =>
          /\ gui.updates = gui.ticks
          /\ gui.draws = gui.ticks - 1
    /\ gui.pc = "done" =>
          /\ ~gui.running
          /\ gui.updates = gui.quitAt + 1
          /\ gui.draws = gui.quitAt + 1

\* C19: every iteration of Gui.run() makes one update() and then one
\* draw() showing the state after that update, the iteration that sees QUIT
\* included; after it the loop has ended and no further call is made; and
\* once QUIT has been seen run() terminates.
C19_RunLoop ==
    /\ []C19_Counts
    /\ [][gui.pc = "done" => gui' = gui]_vars
    /\ (~gui.running ~> gui.pc = "done")

\* run() has ended after QUIT arrived in a later iteration than the first
C19_Witness ==
    /\ gui.pc = "done"
    /\ gui.quitAt >= 1
    /\ gui.updates = gui.quitAt + 1
    /\ gui.draws = gui.updates

\* the builder a recorded __exit__ or build() acted on, as it was before
Before == bpre.builders[bcall.who]

\* __exit__ raised and left name, data and config as they were constructed
NoPartialResult ==
    /\ builders[bcall.who].block = "raised"
    /\ builders[bcall.who].name = None
    /\ builders[bcall.who].data = <<>>
    /\ builders[bcall.who].config = NoConfig

\* __exit__ returned and stored the gathered values
StoredResult ==
    /\ builders[bcall.who].block = "left"
    /\ Before.cls = "BodyBuilder" =>
          /\ builders[bcall.who].name = Before.args["name"]
          /\ builders[bcall.who].data = <<[pos  |-> Before.args["pos"],
                                           vel  |-> Before.args["vel"],
                                           mass |-> Before.args["mass"]]>>
    /\ Before.cls = "SystemBuilder" =>
          builders[bcall.who].config = Before.args

\* C11 as stated: leaving the with-block raises ValueError if and only if a
\* declared argument (name, pos, vel, mass / dt, method) is still None, and
\* a raising __exit__ stores no partial result.
C11_DeclaredOnly ==
    bcall.op = "exit" =>
        /\ bcall.raised = "ValueError" <=>
              \E k \in Declared(Before.cls) : Before.args[k] = None
        /\ bcall.raised = "ValueError" => NoPartialResult

\* C11: leaving the with-block raises ValueError if and only if some entry
\* of the builder's args dict holds None, be it a declared argument or any
\* other name passed to gather(); a raising __exit__ stores no partial
\* result, a returning one stores the gathered values.
C11_ExitValidates ==
    bcall.op = "exit" =>
        /\ bcall.raised \in {"ValueError", "none"}
        /\ bcall.raised = "ValueError" <=>
              \E k \in ArgNames : Before.args[k] = None
        /\ bcall.raised = "ValueError" => NoPartialResult
        /\ bcall.raised = "none" => StoredResult
        /\ builders[bcall.who].args = Before.args
        /\ \A i \in 1..Len(builders) :
              i # bcall.who => builders[i] = bpre.builders[i]

\* __exit__ raised although every declared argument had a value
C11_Witness ==
    /\ bcall.op = "exit"
    /\ bcall.raised = "ValueError"
    /\ \A k \in Declared(Before.cls) : Before.args[k] # None
    /\ Before.args["extra"] = None

\* C12: on a builder whose with-block completed, build() without a result
\* creates a new dictionary, builds the gathered arguments into it and
\* returns it; build(result) updates that same dictionary and returns it.
C12_BuildWithoutResult ==
    (bcall.op = "build" /\ Before.block = "left") =>
        /\ bcall.arg = 0 =>
              /\ bcall.raised = "none"
              /\ bcall.ret = Len(bpre.results) + 1
              /\ Len(results) = Len(bpre.results) + 1
              /\ Before.cls = "BodyBuilder" =>
                    /\ results[bcall.ret].names = <<Before.name>>
                    /\ results[bcall.ret].state.rows = <<Before.data>>
              /\ Before.cls = "SystemBuilder" =>
                    results[bcall.ret].config = Before.config
        /\ (bcall.arg > 0 /\ (Before.cls = "BodyBuilder" =>
                                {"names", "state"} \subseteq
                                    bpre.results[bcall.arg].keys)) =>
              /\ bcall.raised = "none"
              /\ bcall.ret = bcall.arg
              /\ Len(results) = Len(bpre.results)

\* the rows of a state array, none for state = None
Rows(d) == IF d.state.none THEN <<>> ELSE d.state.rows

\* C16: on the result dictionary that starts with names = [] and
\* state = None, names and state have one entry per BodyBuilder.build(result)
\* call, and the i-th name and the i-th state row are those of the builder
\* of the i-th call: insertion order is kept, earlier entries are neither
\* changed nor dropped.
C16_InsertionOrder ==
    /\ Len(results[1].names) = Len(blog)
    /\ Len(Rows(results[1])) = Len(blog)
    /\ results[1].state.none <=> blog = <<>>
    /\ \A i \in 1..Len(blog) :
          /\ results[1].names[i] = blog[i].name
          /\ Rows(results[1])[i] = blog[i].data
    /\ (bcall.op = "build" /\ bcall.arg = 1 /\ bcall.raised = "none"
          /\ Before.cls = "BodyBuilder") =>
          /\ Len(blog) = Len(bpre.results[1].names) + 1
          /\ blog[Len(blog)].who = bcall.who
          /\ blog[Len(blog)].name = Before.name
          /\ blog[Len(blog)].data = Before.data
          /\ \A i \in 1..Len(bpre.results[1].names) :
                /\ results[1].names[i] = bpre.results[1].names[i]
                /\ Rows(results[1])[i] = Rows(bpre.results[1])[i]

\* two builds into the same dictionary with different entries
C16_Witness ==
    /\ Len(blog) >= 2
    /\ blog[1].name # blog[2].name
    /\ blog[1].data # blog[2].data
    /\ bcall.op = "build"
    /\ bcall.arg = 1

\* C17: every entry BodyBuilder.build() adds to result['names'] and
\* result['state'] has a name and data that are not None: build() on a
\* BodyBuilder whose with-block was never left, or was left with a
\* ValueError, adds no entry.
C17_OnlyValidatedEntries ==
    /\ \A r \in 1..Len(results) :
          /\ \A i \in 1..Len(results[r].names) : results[r].names[i] # None
          /\ \A i \in 1..Len(Rows(results[r])) : Rows(results[r])[i] # <<>>
    /\ (bcall.op = "build" /\ Before.cls = "BodyBuilder"
          /\ Before.block # "left") =>
          results = bpre.results

\* C18: get_builder('Body') returns a new BodyBuilder and
\* get_builder('System') a new SystemBuilder, with every declared argument
\* None and nothing stored, distinct from every builder returned earlier,
\* which is left as it was; any other header raises TypeError and returns
\* no builder.
C18_FreshBuilder ==
    bcall.op = "get_builder" =>
        /\ bcall.arg \in {"Body", "System"} =>
              /\ bcall.raised = "none"
              /\ bcall.ret = Len(bpre.builders) + 1
              /\ Len(builders) = Len(bpre.builders) + 1
              /\ builders[bcall.ret].cls =
                    (IF bcall.arg = "Body" THEN "BodyBuilder"
                     ELSE "SystemBuilder")
              /\ \A k \in ArgNames :
                    builders[bcall.ret].args[k] =
                        (IF k \in (IF bcall.arg = "Body" THEN BodyArgs
                                   ELSE SystemArgs)
                         THEN None ELSE Absent)
              /\ builders[bcall.ret].block = "in"
              /\ builders[bcall.ret].name = None
              /\ builders[bcall.ret].data = <<>>
              /\ builders[bcall.ret].config = NoConfig
              /\ \A i \in 1..Len(bpre.builders) :
                    builders[i] = bpre.builders[i]
        /\ bcall.arg \notin {"Body", "System"} =>
              /\ bcall.raised = "TypeError"
              /\ bcall.ret = 0
              /\ builders = bpre.builders

\* a second builder of a class, returned after the first one gathered values
C18_Witness ==
    /\ bcall.op = "get_builder"
    /\ bcall.raised = "none"
    /\ bcall.ret >= 2
    /\ \E i \in 1..Len(bpre.builders) :
          /\ builders[i].cls = builders[bcall.ret].cls
          /\ builders[i].args # builders[bcall.ret].args

====
